---- MODULE Spec2Model ----
(***************************************************************************)
(* MainCheckoutService (src/src/modules/shopping/services/checkout.ts):    *)
(* a checkout session owning a cart (#items), driven by clear, scan,       *)
(* summary and total, over an item repository and an ordered list of       *)
(* promotion services.                                                     *)
(*                                                                         *)
(* Prices are JavaScript numbers in the source; the model keeps them as    *)
(* integers counted in hundredths (1.99 is 199) and renders them back as   *)
(* decimals where the source formats them into a string.                   *)
(***************************************************************************)
EXTENDS Integers, Sequences, FiniteSets, TLC

VARIABLES
  items,              \* this.#items: the cart
  itemRepository,     \* the records held by this.#itemRepository, by SKU
  promotionServices,  \* this.#promotionServices, fixed at construction
  call,               \* the last call made: [op, ...arguments]
  output,             \* what that call returned
  selected,           \* the SKUs that call passed to itemRepository.selectOne
  applied,            \* the carts that call passed to promotionService.apply
  stdout,             \* the values that call wrote with console.log
  stderr,             \* how many times that call wrote with console.error
  raised,             \* whether that call threw to its caller
  before,             \* history: the cart as it stood when that call began
  scanned             \* history: the repository's records of the SKUs whose
                      \* scan returned data=true, since construction or the
                      \* last clear

vars == <<items, itemRepository, promotionServices, call, output, selected,
          applied, stdout, stderr, raised, before, scanned>>

\* The longest cart the model explores.
MaxCart == 5

-----------------------------------------------------------------------------
(* JavaScript values *)

undefined == [t |-> "undefined"]
null == [t |-> "null"]
String(s) == [t |-> "string", s |-> s]

\* An Output<T> with neither data nor error.
NoOutput == [k \in {} |-> TRUE]

\* !v for a value that is a string, null or undefined.
Falsy(v) == v.t \in {"undefined", "null"} \/ (v.t = "string" /\ v.s = "")

\* lodash isEmpty of an Output's field: absent, or an object with no keys.
isEmpty(o, field) == field \notin DOMAIN o \/ DOMAIN o[field] = {}

\* An object is modelled by its own enumerable properties, which is what
\* lodash isEmpty looks at.  new Error(message) has none: message and stack
\* are not enumerable.
plainError == [k \in {} |-> TRUE]
\* An error object carrying an enumerable property.
repositoryError == [name |-> "RepositoryError"]

\* How a call to a collaborator ended: it returned value, or it threw.
Returned(value) == [threw |-> FALSE, value |-> value]
Threw == [threw |-> TRUE]

InvalidInputError == [name |-> "InvalidInputError"]
ItemNotFoundError == [name |-> "ItemNotFoundError"]
EmptyCartError == [name |-> "EmptyCartError"]

-----------------------------------------------------------------------------
(* Items, the repository and the bundle promotion (checkout.test.ts) *)

promotionRuleItem1 == [sku |-> "p01", name |-> "valid-name-p1", price |-> 100]
promotionRuleItem2 == [sku |-> "p02", name |-> "valid-name-p2", price |-> 50]
\* { ...promotionRuleItem2, price: 0 }: free on bundle
freeItem2 == [sku |-> "p02", name |-> "valid-name-p2", price |-> 0]

validItemT01 == [sku |-> "t01", name |-> "valid-name", price |-> 199]
validItemT02 == [sku |-> "t02", name |-> "valid-name", price |-> 200]

\* MockItemRepository after insertMany([promotionRuleItem1, promotionRuleItem2]).
testRepository ==
  [s \in {"p01", "p02"} |->
     IF s = "p01" THEN promotionRuleItem1 ELSE promotionRuleItem2]

\* The batches the tests insert later.
InsertBatches == { <<validItemT01, validItemT02>> }

\* insertMany(batch): every record stored under its SKU, a duplicate SKU
\* overwriting the earlier record.
RECURSIVE insertMany(_, _)
insertMany(repo, batch) ==
  IF batch = <<>> THEN repo
  ELSE LET it == Head(batch)
           stored == [s \in DOMAIN repo \cup {it.sku} |->
                        IF s = it.sku THEN it ELSE repo[s]]
       IN insertMany(stored, Tail(batch))

\* selectOne(sku): the stored record as data, or neither data nor error.
selectOne(repo, sku) ==
  IF sku \in DOMAIN repo THEN [data |-> repo[sku]] ELSE NoOutput

-----------------------------------------------------------------------------
(* BundlePromotionService *)

\* { ...promotionRuleItem1, bundleItems: [free p02], minimumQuantity: 2 }
bundleRule1 ==
  [sku |-> "p01", name |-> "valid-name-p1", price |-> 100,
   bundleItems |-> <<freeItem2>>, minimumQuantity |-> 2]

\* A bundle item made free by a discount equal to its price.
discountedGift == [sku |-> "g01", name |-> "gift", price |-> 30, discount |-> 30]
bundleRule2 ==
  [sku |-> "p02", name |-> "valid-name-p2", price |-> 50,
   bundleItems |-> <<discountedGift>>, minimumQuantity |-> 2]

\* A bundle item without a price, whose SKU is the trigger SKU of its rule.
unpricedT01 == [sku |-> "t01", name |-> "free-t01"]
bundleRule3 ==
  [sku |-> "t01", name |-> "valid-name", price |-> 199,
   bundleItems |-> <<unpricedT01>>, minimumQuantity |-> 1]

BundlePromotionService(rules) == [rules |-> rules]

\* A PromotionService whose apply throws.
throwingPromotionService == [throws |-> TRUE]

\* The promotionServices a session is constructed with.
PromotionConfigs ==
  { <<>>,
    <<BundlePromotionService(<<bundleRule1>>)>>,
    <<BundlePromotionService(<<bundleRule1>>),
      BundlePromotionService(<<bundleRule2>>)>>,
    <<BundlePromotionService(<<bundleRule3, bundleRule1>>)>> }

RECURSIVE CountSku(_, _)
CountSku(cart, sku) ==
  IF cart = <<>> THEN 0
  ELSE (IF Head(cart).sku = sku THEN 1 ELSE 0) + CountSku(Tail(cart), sku)

RECURSIVE Repeat(_, _)
Repeat(seq, n) == IF n <= 0 THEN <<>> ELSE seq \o Repeat(seq, n - 1)

\* The items one rule emits: all its bundleItems, once per qualifying group.
ruleItems(rule, cart) ==
  Repeat(rule.bundleItems, CountSku(cart, rule.sku) \div rule.minimumQuantity)

\* apply(cart): the items of every rule, in rule order; cart is not changed.
RECURSIVE applyRules(_, _)
applyRules(rules, cart) ==
  IF rules = <<>> THEN <<>>
  ELSE ruleItems(Head(rules), cart) \o applyRules(Tail(rules), cart)

apply(promotionService, cart) == applyRules(promotionService.rules, cart)

\* How the call promotionService.apply(cart) ends.
applyCall(promotionService, cart) ==
  IF "throws" \in DOMAIN promotionService THEN Threw
  ELSE Returned(apply(promotionService, cart))

-----------------------------------------------------------------------------
(* MainCheckoutService *)

\* clear that reports success without replacing the cart.
clearKeepsItems(its) ==
  [items |-> its, output |-> [data |-> TRUE], stderr |-> 0, raised |-> FALSE]

\* clear(): the cart is replaced by an empty one.
clear(its) ==
  [items |-> <<>>, output |-> [data |-> TRUE], stderr |-> 0, raised |-> FALSE]

\* scan with the validation `itemSKU === undefined` in place of `!itemSKU`:
\* null and the empty string go on to the repository lookup.
scanUndefinedOnly(its, repo, itemSKU) ==
  IF itemSKU.t = "undefined"
  THEN [items |-> its,
        output |-> [data |-> FALSE, error |-> InvalidInputError],
        selected |-> <<>>, stderr |-> 0, raised |-> FALSE]
  ELSE LET key == IF itemSKU.t = "string" THEN itemSKU.s ELSE "null"
           selectItemOutput == selectOne(repo, key)
       IN IF isEmpty(selectItemOutput, "data")
          THEN [items |-> its,
                output |-> [data |-> FALSE, error |-> ItemNotFoundError],
                selected |-> <<key>>, stderr |-> 0, raised |-> FALSE]
          ELSE [items |-> Append(its, selectItemOutput.data),
                output |-> [data |-> TRUE],
                selected |-> <<key>>, stderr |-> 0, raised |-> FALSE]

\* scan without the branch that sets ItemNotFoundError: a lookup without data
\* falls through to the return with data=false and no error.
scanNoNotFound(its, repo, itemSKU) ==
  IF Falsy(itemSKU)
  THEN [items |-> its,
        output |-> [data |-> FALSE, error |-> InvalidInputError],
        selected |-> <<>>, stderr |-> 0, raised |-> FALSE]
  ELSE LET selectItemOutput == selectOne(repo, itemSKU.s)
       IN IF isEmpty(selectItemOutput, "data")
          THEN [items |-> its,
                output |-> [data |-> FALSE],
                selected |-> <<itemSKU.s>>, stderr |-> 0, raised |-> FALSE]
          ELSE [items |-> Append(its, selectItemOutput.data),
                output |-> [data |-> TRUE],
                selected |-> <<itemSKU.s>>, stderr |-> 0, raised |-> FALSE]

\* scan that does not push a record the cart already holds.
scanDeduplicated(its, repo, itemSKU) ==
  IF Falsy(itemSKU)
  THEN [items |-> its,
        output |-> [data |-> FALSE, error |-> InvalidInputError],
        selected |-> <<>>, stderr |-> 0, raised |-> FALSE]
  ELSE LET selectItemOutput == selectOne(repo, itemSKU.s)
       IN IF isEmpty(selectItemOutput, "data")
          THEN [items |-> its,
                output |-> [data |-> FALSE, error |-> ItemNotFoundError],
                selected |-> <<itemSKU.s>>, stderr |-> 0, raised |-> FALSE]
          ELSE [items |-> IF \E i \in DOMAIN its : its[i] = selectItemOutput.data
                          THEN its
                          ELSE Append(its, selectItemOutput.data),
                output |-> [data |-> TRUE],
                selected |-> <<itemSKU.s>>, stderr |-> 0, raised |-> FALSE]

\* scan without the try/catch around its body: a lookup that throws leaves
\* scan by the exception.
scanGivenUncaught(its, itemSKU, lookup) ==
  IF Falsy(itemSKU)
  THEN [items |-> its,
        output |-> [data |-> FALSE, error |-> InvalidInputError],
        selected |-> <<>>, stderr |-> 0, raised |-> FALSE]
  ELSE IF lookup.threw
  THEN [items |-> its, output |-> undefined,
        selected |-> <<itemSKU.s>>, stderr |-> 0, raised |-> TRUE]
  ELSE LET selectItemOutput == lookup.value
       IN IF ~isEmpty(selectItemOutput, "error")
          THEN [items |-> its,
                output |-> [data |-> FALSE, error |-> selectItemOutput.error],
                selected |-> <<itemSKU.s>>, stderr |-> 0, raised |-> FALSE]
          ELSE IF isEmpty(selectItemOutput, "data")
          THEN [items |-> its,
                output |-> [data |-> FALSE, error |-> ItemNotFoundError],
                selected |-> <<itemSKU.s>>, stderr |-> 0, raised |-> FALSE]
          ELSE [items |-> Append(its, selectItemOutput.data),
                output |-> [data |-> TRUE],
                selected |-> <<itemSKU.s>>, stderr |-> 0, raised |-> FALSE]

\* scan that sets output.data = true before the lookup instead of after the
\* push: a lookup that throws or finds nothing still reports data=true.
scanGivenEarlySuccess(its, itemSKU, lookup) ==
  IF Falsy(itemSKU)
  THEN [items |-> its,
        output |-> [data |-> FALSE, error |-> InvalidInputError],
        selected |-> <<>>, stderr |-> 0, raised |-> FALSE]
  ELSE IF lookup.threw
  THEN [items |-> its, output |-> [data |-> TRUE],
        selected |-> <<itemSKU.s>>, stderr |-> 1, raised |-> FALSE]
  ELSE LET selectItemOutput == lookup.value
       IN IF ~isEmpty(selectItemOutput, "error")
          THEN [items |-> its,
                output |-> [data |-> TRUE, error |-> selectItemOutput.error],
                selected |-> <<itemSKU.s>>, stderr |-> 0, raised |-> FALSE]
          ELSE IF isEmpty(selectItemOutput, "data")
          THEN [items |-> its,
                output |-> [data |-> TRUE, error |-> ItemNotFoundError],
                selected |-> <<itemSKU.s>>, stderr |-> 0, raised |-> FALSE]
          ELSE [items |-> Append(its, selectItemOutput.data),
                output |-> [data |-> TRUE],
                selected |-> <<itemSKU.s>>, stderr |-> 0, raised |-> FALSE]

\* scan that pushes the looked-up data before it tests the lookup's error.
scanGivenPushesFirst(its, itemSKU, lookup) ==
  IF Falsy(itemSKU)
  THEN [items |-> its,
        output |-> [data |-> FALSE, error |-> InvalidInputError],
        selected |-> <<>>, stderr |-> 0, raised |-> FALSE]
  ELSE IF lookup.threw
  THEN [items |-> its, output |-> [data |-> FALSE],
        selected |-> <<itemSKU.s>>, stderr |-> 1, raised |-> FALSE]
  ELSE LET selectItemOutput == lookup.value
           pushed == IF isEmpty(selectItemOutput, "data") THEN its
                     ELSE Append(its, selectItemOutput.data)
       IN IF ~isEmpty(selectItemOutput, "error")
          THEN [items |-> pushed,
                output |-> [data |-> FALSE, error |-> selectItemOutput.error],
                selected |-> <<itemSKU.s>>, stderr |-> 0, raised |-> FALSE]
          ELSE IF isEmpty(selectItemOutput, "data")
          THEN [items |-> its,
                output |-> [data |-> FALSE, error |-> ItemNotFoundError],
                selected |-> <<itemSKU.s>>, stderr |-> 0, raised |-> FALSE]
          ELSE [items |-> pushed,
                output |-> [data |-> TRUE],
                selected |-> <<itemSKU.s>>, stderr |-> 0, raised |-> FALSE]

\* The body of scan(itemSKU) on cart its, lookup being how the call
\* this.#itemRepository.selectOne(itemSKU) ends if scan makes it: the cart
\* afterwards, the Output returned, the SKUs looked up, the console.error
\* calls made and whether scan threw.  A lookup that throws is caught, logged
\* and leaves the initial Output { data: false }.
scanGiven(its, itemSKU, lookup) ==
  IF Falsy(itemSKU)
  THEN [items |-> its,
        output |-> [data |-> FALSE, error |-> InvalidInputError],
        selected |-> <<>>, stderr |-> 0, raised |-> FALSE]
  ELSE IF lookup.threw
  THEN [items |-> its, output |-> [data |-> FALSE],
        selected |-> <<itemSKU.s>>, stderr |-> 1, raised |-> FALSE]
  ELSE LET selectItemOutput == lookup.value
       IN IF ~isEmpty(selectItemOutput, "error")
          THEN [items |-> its,
                output |-> [data |-> FALSE, error |-> selectItemOutput.error],
                selected |-> <<itemSKU.s>>, stderr |-> 0, raised |-> FALSE]
          ELSE IF isEmpty(selectItemOutput, "data")
          THEN [items |-> its,
                output |-> [data |-> FALSE, error |-> ItemNotFoundError],
                selected |-> <<itemSKU.s>>, stderr |-> 0, raised |-> FALSE]
          ELSE [items |-> Append(its, selectItemOutput.data),
                output |-> [data |-> TRUE],
                selected |-> <<itemSKU.s>>, stderr |-> 0, raised |-> FALSE]

\* How the repository repo answers scan's lookup of itemSKU.
lookupIn(repo, itemSKU) ==
  IF itemSKU.t = "string" THEN Returned(selectOne(repo, itemSKU.s))
  ELSE Returned(NoOutput)

\* scan(itemSKU) on cart its over repository repo.
scan(its, repo, itemSKU) == scanGiven(its, itemSKU, lookupIn(repo, itemSKU))

\* The promotions loop guarded by isEmpty(promotionServices) instead of its
\* negation: with services registered, none is applied.
applyPromotionsSkipped(its, services, seen) ==
  [items |-> its, applied |-> seen, threw |-> FALSE]

\* The promotions loop assigning each service's items to the cart instead of
\* pushing them onto it.
RECURSIVE applyPromotionsAssigned(_, _, _)
applyPromotionsAssigned(its, services, seen) ==
  IF services = <<>> THEN [items |-> its, applied |-> seen, threw |-> FALSE]
  ELSE LET applyOutput == applyCall(Head(services), its)
       IN IF applyOutput.threw
          THEN [items |-> its, applied |-> Append(seen, its), threw |-> TRUE]
          ELSE applyPromotionsAssigned(applyOutput.value,
                                       Tail(services), Append(seen, its))

\* The promotions loop applying every service a second time to the cart
\* that already holds the items it has just emitted.
RECURSIVE applyPromotionsFedBack(_, _, _)
applyPromotionsFedBack(its, services, seen) ==
  IF services = <<>> THEN [items |-> its, applied |-> seen, threw |-> FALSE]
  ELSE LET applyOutput == applyCall(Head(services), its)
       IN IF applyOutput.threw
          THEN [items |-> its, applied |-> Append(seen, its), threw |-> TRUE]
          ELSE LET once == its \o applyOutput.value
               IN applyPromotionsFedBack(
                    once \o apply(Head(services), once),
                    Tail(services), Append(seen, its))

\* The promotions loop of summary: each service in order is applied to the
\* cart as it then stands and its items are pushed onto the cart; an apply
\* that throws ends the loop, what was pushed before staying in the cart.
\* Yields the cart afterwards, the carts the services were applied to and
\* whether an apply threw.
RECURSIVE applyPromotions(_, _, _)
applyPromotions(its, services, seen) ==
  IF services = <<>> THEN [items |-> its, applied |-> seen, threw |-> FALSE]
  ELSE LET applyOutput == applyCall(Head(services), its)
       IN IF applyOutput.threw
          THEN [items |-> its, applied |-> Append(seen, its), threw |-> TRUE]
          ELSE applyPromotions(its \o applyOutput.value,
                               Tail(services), Append(seen, its))

\* items.map(item => item?.sku).join(', '): an item without a SKU maps to
\* undefined, which join renders as the empty string.
itemSku(item) == IF "sku" \in DOMAIN item /\ item.sku # "" THEN item.sku ELSE ""

RECURSIVE join(_, _)
join(cart, separator) ==
  IF cart = <<>> THEN ""
  ELSE IF Len(cart) = 1 THEN itemSku(cart[1])
  ELSE itemSku(Head(cart)) \o separator \o join(Tail(cart), separator)

\* itemsReducer's modifier: price if truthy, minus discount if truthy.
modifier(currentItem) ==
  (IF "price" \in DOMAIN currentItem /\ currentItem.price # 0
   THEN currentItem.price ELSE 0)
  - (IF "discount" \in DOMAIN currentItem /\ currentItem.discount # 0
     THEN currentItem.discount ELSE 0)

\* reduce without its initial value 0: the first item becomes the
\* accumulator and its price is never added.
totalPriceSkipsFirst(cart) ==
  LET RECURSIVE sum(_)
      sum(c) == IF c = <<>> THEN 0
                ELSE sum(SubSeq(c, 1, Len(c) - 1)) + modifier(c[Len(c)])
  IN IF cart = <<>> THEN 0 ELSE sum(Tail(cart))

\* items.reduce(itemsReducer, 0)
RECURSIVE totalPrice(_)
totalPrice(cart) ==
  IF cart = <<>> THEN 0
  ELSE totalPrice(SubSeq(cart, 1, Len(cart) - 1)) + modifier(cart[Len(cart)])

\* `${totalPrice}`: the number in decimal notation, without trailing zeros.
numberToString(hundredths) ==
  LET magnitude == IF hundredths < 0 THEN -hundredths ELSE hundredths
      whole == magnitude \div 100
      fraction == magnitude % 100
  IN (IF hundredths < 0 THEN "-" ELSE "") \o ToString(whole) \o
     (IF fraction = 0 THEN ""
      ELSE IF fraction % 10 = 0 THEN "." \o ToString(fraction \div 10)
      ELSE "." \o ToString(fraction \div 10) \o ToString(fraction % 10))

\* The two report lines of summary.
report(cart) ==
  "SKUs Scanned: " \o join(cart, ", ") \o "\n" \o
  "Total expected: $" \o numberToString(totalPrice(cart))

\* summary without the empty-cart check.
summaryNoEmptyCheck(its, services) ==
  LET promoted == applyPromotions(its, services, <<>>)
  IN [items |-> promoted.items,
      output |-> [data |-> report(promoted.items)],
      applied |-> promoted.applied, stderr |-> 0, raised |-> FALSE]

\* summary that renders the report from the cart as it stood before the
\* promotions were applied.
summaryReportsScanned(its, services) ==
  IF its = <<>>
  THEN [items |-> its, output |-> [error |-> EmptyCartError],
        applied |-> <<>>, stderr |-> 0, raised |-> FALSE]
  ELSE LET promoted == applyPromotions(its, services, <<>>)
       IN [items |-> promoted.items,
           output |-> [data |-> report(its)],
           applied |-> promoted.applied, stderr |-> 0, raised |-> FALSE]

\* summary without the try/catch around its body: an apply that throws
\* leaves summary by the exception.
summaryUncaught(its, services) ==
  IF its = <<>>
  THEN [items |-> its, output |-> [error |-> EmptyCartError],
        applied |-> <<>>, stderr |-> 0, raised |-> FALSE]
  ELSE LET promoted == applyPromotions(its, services, <<>>)
       IN IF promoted.threw
          THEN [items |-> promoted.items, output |-> undefined,
                applied |-> promoted.applied, stderr |-> 0, raised |-> TRUE]
          ELSE [items |-> promoted.items,
                output |-> [data |-> report(promoted.items)],
                applied |-> promoted.applied, stderr |-> 0, raised |-> FALSE]

\* summary() on cart its with the registered services: the cart afterwards,
\* the Output returned, the carts passed to apply, the console.error calls
\* made and whether summary threw.  An apply that throws is caught, logged
\* and leaves the initial Output {}.
summary(its, services) ==
  IF its = <<>>
  THEN [items |-> its, output |-> [error |-> EmptyCartError],
        applied |-> <<>>, stderr |-> 0, raised |-> FALSE]
  ELSE LET promoted == applyPromotions(its, services, <<>>)
       IN IF promoted.threw
          THEN [items |-> promoted.items, output |-> NoOutput,
                applied |-> promoted.applied, stderr |-> 1, raised |-> FALSE]
          ELSE [items |-> promoted.items,
                output |-> [data |-> report(promoted.items)],
                applied |-> promoted.applied, stderr |-> 0, raised |-> FALSE]

\* total that logs its initial output '' instead of the summary's data.
totalLogsInitial(its, services) ==
  LET summaryOutput == summary(its, services)
      failed == \/ "data" \notin DOMAIN summaryOutput.output
                \/ summaryOutput.output.data = ""
                \/ "error" \in DOMAIN summaryOutput.output
  IN [items |-> summaryOutput.items,
      output |-> undefined,
      applied |-> summaryOutput.applied,
      stderr |-> summaryOutput.stderr + (IF failed THEN 1 ELSE 0),
      stdout |-> <<String("")>>,
      raised |-> FALSE]

\* total(): summary, then console.error when it failed or gave no data, and
\* console.log of its data, which is undefined when summary gave none.
total(its, services) ==
  LET summaryOutput == summary(its, services)
      failed == \/ "data" \notin DOMAIN summaryOutput.output
                \/ summaryOutput.output.data = ""
                \/ "error" \in DOMAIN summaryOutput.output
  IN [items |-> summaryOutput.items,
      output |-> undefined,
      applied |-> summaryOutput.applied,
      stderr |-> summaryOutput.stderr + (IF failed THEN 1 ELSE 0),
      stdout |-> << IF "data" \in DOMAIN summaryOutput.output
                    THEN String(summaryOutput.output.data) ELSE undefined >>,
      raised |-> FALSE]

-----------------------------------------------------------------------------
(* The session as a state machine *)

\* What a caller may pass to scan: known and unknown SKUs, and no SKU.
ScanInputs ==
  { String(s) : s \in {"p01", "p02", "t01", "t02", "t03", ""} }
    \cup {null, undefined}

Init ==
  /\ items = <<>>
  /\ itemRepository = testRepository
  /\ promotionServices \in PromotionConfigs
  /\ call = [op |-> "constructor"]
  /\ output = undefined
  /\ selected = <<>>
  /\ applied = <<>>
  /\ stdout = <<>>
  /\ stderr = 0
  /\ raised = FALSE
  /\ before = <<>>
  /\ scanned = <<>>

Clear ==
  LET r == clear(items)
  IN /\ items' = r.items
     /\ call' = [op |-> "clear"]
     /\ output' = r.output
     /\ selected' = <<>>
     /\ applied' = <<>>
     /\ stdout' = <<>>
     /\ stderr' = r.stderr
     /\ raised' = r.raised
     /\ before' = items
     /\ scanned' = <<>>
     /\ UNCHANGED <<itemRepository, promotionServices>>

Scan ==
  \E itemSKU \in ScanInputs :
    LET r == scan(items, itemRepository, itemSKU)
    IN /\ Len(r.items) <= MaxCart
       /\ items' = r.items
       /\ call' = [op |-> "scan", itemSKU |-> itemSKU,
                   lookup |-> lookupIn(itemRepository, itemSKU)]
       /\ output' = r.output
       /\ selected' = r.selected
       /\ applied' = <<>>
       /\ stdout' = <<>>
       /\ stderr' = r.stderr
       /\ raised' = r.raised
       /\ before' = items
       /\ scanned' = IF /\ r.output.data = TRUE
                        /\ itemSKU.t = "string"
                        /\ itemSKU.s \in DOMAIN itemRepository
                     THEN Append(scanned, itemRepository[itemSKU.s])
                     ELSE scanned
       /\ UNCHANGED <<itemRepository, promotionServices>>

Summary ==
  LET r == summary(items, promotionServices)
  IN /\ Len(r.items) <= MaxCart
     /\ items' = r.items
     /\ call' = [op |-> "summary"]
     /\ output' = r.output
     /\ selected' = <<>>
     /\ applied' = r.applied
     /\ stdout' = <<>>
     /\ stderr' = r.stderr
     /\ raised' = r.raised
     /\ before' = items
     /\ UNCHANGED <<itemRepository, promotionServices, scanned>>

Total ==
  LET r == total(items, promotionServices)
  IN /\ Len(r.items) <= MaxCart
     /\ items' = r.items
     /\ call' = [op |-> "total"]
     /\ output' = r.output
     /\ selected' = <<>>
     /\ applied' = r.applied
     /\ stdout' = r.stdout
     /\ stderr' = r.stderr
     /\ raised' = r.raised
     /\ before' = items
     /\ UNCHANGED <<itemRepository, promotionServices, scanned>>

\* The tests insert further records between calls on the session.
InsertMany ==
  \E batch \in InsertBatches :
    /\ itemRepository' = insertMany(itemRepository, batch)
    /\ call' = [op |-> "insertMany", items |-> batch]
    /\ output' = [data |-> TRUE]
    /\ selected' = <<>>
    /\ applied' = <<>>
    /\ stdout' = <<>>
    /\ stderr' = 0
    /\ raised' = FALSE
    /\ before' = items
    /\ UNCHANGED <<items, promotionServices, scanned>>

Next == Clear \/ Scan \/ Summary \/ Total \/ InsertMany

Spec == Init /\ [][Next]_vars

-----------------------------------------------------------------------------
(* The session over collaborators that fail *)

\* The repository after the tests' insertMany([validItem1, validItem2]).
filledRepository ==
  insertMany(testRepository, <<validItemT01, validItemT02>>)

\* The promotionServices of a session one of whose services throws.
FaultConfigs ==
  { <<BundlePromotionService(<<bundleRule1>>)>>,
    <<BundlePromotionService(<<bundleRule1>>), throwingPromotionService>> }

FaultScanInputs == { String(s) : s \in {"p01", "t01", "t02", "t03", ""} }

\* The ways selectOne(itemSKU) can end on an ItemRepository: as the mock
\* repository answers, by throwing, or with an error set in its Output, with
\* or without the record as data.
Lookups(repo, itemSKU) ==
  LET answer == lookupIn(repo, itemSKU)
  IN {answer, Threw}
       \cup { Returned([error |-> e] @@ answer.value) :
                e \in {plainError, repositoryError} }

InitFault ==
  /\ items = <<>>
  /\ itemRepository = filledRepository
  /\ promotionServices \in FaultConfigs
  /\ call = [op |-> "constructor"]
  /\ output = undefined
  /\ selected = <<>>
  /\ applied = <<>>
  /\ stdout = <<>>
  /\ stderr = 0
  /\ raised = FALSE
  /\ before = <<>>
  /\ scanned = <<>>

ScanFault ==
  \E itemSKU \in FaultScanInputs :
    \E lookup \in Lookups(itemRepository, itemSKU) :
      LET r == scanGiven(items, itemSKU, lookup)
      IN /\ Len(r.items) <= MaxCart
         /\ items' = r.items
         /\ call' = [op |-> "scan", itemSKU |-> itemSKU, lookup |-> lookup]
         /\ output' = r.output
         /\ selected' = r.selected
         /\ applied' = <<>>
         /\ stdout' = <<>>
         /\ stderr' = r.stderr
         /\ raised' = r.raised
         /\ before' = items
         /\ scanned' = IF /\ ~r.raised
                          /\ r.output.data = TRUE
                          /\ ~lookup.threw
                          /\ "data" \in DOMAIN lookup.value
                       THEN Append(scanned, lookup.value.data)
                       ELSE scanned
         /\ UNCHANGED <<itemRepository, promotionServices>>

NextFault == Clear \/ ScanFault \/ Summary \/ Total

SpecFault == InitFault /\ [][NextFault]_vars

-----------------------------------------------------------------------------
(* Properties *)

\* How many entries of seq equal x, and how many carry the SKU sku.
Occurrences(seq, x) == Cardinality({i \in DOMAIN seq : seq[i] = x})
SkuOccurrences(seq, sku) == Cardinality({i \in DOMAIN seq : seq[i].sku = sku})

IsPrefix(p, q) == Len(p) <= Len(q) /\ SubSeq(q, 1, Len(p)) = p

\* What the last call pushed onto the cart it found.
Appended == SubSeq(items, Len(before) + 1, Len(items))

\* C1: scan("") , scan(null) and scan(undefined) return data=false with
\* InvalidInputError, whatever the session holds, and make no repository
\* lookup.
C1_InvalidInput ==
  (call.op = "scan" /\ call.itemSKU \in {String(""), null, undefined})
    => /\ output = [data |-> FALSE, error |-> InvalidInputError]
       /\ selected = <<>>

C1_Witness ==
  /\ call.op = "scan"
  /\ call.itemSKU = null
  /\ items # <<>>
  /\ output = [data |-> FALSE, error |-> InvalidInputError]

\* C2: scan of a non-empty SKU the repository holds no record for returns
\* data=false with ItemNotFoundError, whatever else the repository and the
\* cart hold.
C2_ItemNotFound ==
  (/\ call.op = "scan"
   /\ call.itemSKU.t = "string"
   /\ call.itemSKU.s # ""
   /\ call.itemSKU.s \notin DOMAIN itemRepository)
    => output = [data |-> FALSE, error |-> ItemNotFoundError]

C2_Witness ==
  /\ call.op = "scan"
  /\ call.itemSKU = String("t03")
  /\ "t01" \in DOMAIN itemRepository
  /\ items # <<>>
  /\ output = [data |-> FALSE, error |-> ItemNotFoundError]

\* C3: scan of a SKU the repository holds returns data=true without an error
\* and appends that SKU's record at the end of the cart: one entry more, the
\* earlier entries in place, also when the cart already holds that record.
C3_ScanAppends ==
  (/\ call.op = "scan"
   /\ call.itemSKU.t = "string"
   /\ call.itemSKU.s \in DOMAIN itemRepository)
    => /\ output = [data |-> TRUE]
       /\ Len(items) = Len(before) + 1
       /\ items = Append(before, itemRepository[call.itemSKU.s])

C3_Witness ==
  /\ call.op = "scan"
  /\ output = [data |-> TRUE]
  /\ Len(items) = 3
  /\ items[3] = items[1]
  /\ items[3] = validItemT01

\* C4: summary on an empty cart returns EmptyCartError and no data, applies
\* no promotion service and leaves the cart empty.
C4_EmptyCart ==
  (call.op = "summary" /\ before = <<>>)
    => /\ output = [error |-> EmptyCartError]
       /\ applied = <<>>
       /\ items = <<>>

C4_Witness ==
  /\ call.op = "summary"
  /\ before = <<>>
  /\ promotionServices # <<>>
  /\ "error" \in DOMAIN output

\* The sum over the cart of price minus discount, an absent one counting 0.
RECURSIVE PriceLessDiscount(_)
PriceLessDiscount(seq) ==
  IF seq = <<>> THEN 0
  ELSE (IF "price" \in DOMAIN Head(seq) THEN Head(seq).price ELSE 0)
       - (IF "discount" \in DOMAIN Head(seq) THEN Head(seq).discount ELSE 0)
       + PriceLessDiscount(Tail(seq))

\* The SKUs of seq from position i on, each preceded by ", ".
RECURSIVE SkusFrom(_, _)
SkusFrom(seq, i) ==
  IF i > Len(seq) THEN "" ELSE ", " \o seq[i].sku \o SkusFrom(seq, i + 1)

\* C5: summary on a non-empty cart returns data and no error: the line
\* "SKUs Scanned: " with the SKUs of the cart after the promotions, in cart
\* order, joined by ", ", then the line "Total expected: $" with the sum of
\* price minus discount over those items; t01 (1.99), t02 (2), t01 reports
\* "t01, t02, t01" and 5.98.
C5_Report ==
  (call.op = "summary" /\ before # <<>>)
    => /\ DOMAIN output = {"data"}
       /\ output.data =
            "SKUs Scanned: " \o items[1].sku \o SkusFrom(items, 2) \o "\n" \o
            "Total expected: $" \o numberToString(PriceLessDiscount(items))
       /\ items = <<validItemT01, validItemT02, validItemT01>>
            => output.data = "SKUs Scanned: t01, t02, t01\nTotal expected: $5.98"

C5_Witness ==
  /\ call.op = "summary"
  /\ before = <<validItemT01, validItemT02, validItemT01>>
  /\ output = [data |-> "SKUs Scanned: t01, t02, t01\nTotal expected: $5.98"]

\* C6: one summary call pushes, for every rule of every registered bundle
\* service, floor(n / rule.minimumQuantity) copies of each of the rule's
\* bundleItems, n being the number of entries with rule.sku in the cart the
\* service is applied to.  With the rule {p01, minimumQuantity 2, [free p02]}
\* alone, a cart of three p01 and one p02 gets one free p02, and a cart with
\* fewer than two p01 gets nothing.
C6_BundleQuantity ==
  (call.op = "summary" /\ before # <<>>)
    => /\ Len(applied) = Len(promotionServices)
       /\ \A k \in DOMAIN promotionServices :
            \A r \in DOMAIN promotionServices[k].rules :
              LET rule == promotionServices[k].rules[r]
              IN \A b \in DOMAIN rule.bundleItems :
                   Occurrences(Appended, rule.bundleItems[b]) =
                     Occurrences(rule.bundleItems, rule.bundleItems[b])
                       * (SkuOccurrences(applied[k], rule.sku)
                            \div rule.minimumQuantity)
       /\ promotionServices = <<BundlePromotionService(<<bundleRule1>>)>>
            => /\ (SkuOccurrences(before, "p01") = 3
                     /\ SkuOccurrences(before, "p02") = 1)
                    => Appended = <<freeItem2>>
               /\ SkuOccurrences(before, "p01") < 2 => Appended = <<>>

C6_Witness ==
  /\ call.op = "summary"
  /\ promotionServices = <<BundlePromotionService(<<bundleRule1>>)>>
  /\ before = <<promotionRuleItem1, promotionRuleItem1, promotionRuleItem1,
                promotionRuleItem2>>
  /\ items = Append(before, freeItem2)

\* C7: what summary and total push onto the cart is not kept in the session:
\* when either returns, the cart holds exactly the records appended by the
\* successful scans since construction or the last clear.
C7_NotPersisted ==
  call.op \in {"summary", "total"} => items = scanned

\* No bundle item of a registered rule carries the trigger SKU of a rule.
NoBundleItemTriggers ==
  \A k1, k2 \in DOMAIN promotionServices :
    \A r1 \in DOMAIN promotionServices[k1].rules :
      \A r2 \in DOMAIN promotionServices[k2].rules :
        \A b \in DOMAIN promotionServices[k1].rules[r1].bundleItems :
          promotionServices[k1].rules[r1].bundleItems[b].sku
            # promotionServices[k2].rules[r2].sku

\* C8: a summary that directly follows a successful summary, with no scan or
\* clear between them, returns the same report, provided no bundle item
\* carries a trigger SKU.
C8_SameReport ==
  [][(/\ call.op = "summary"
      /\ "data" \in DOMAIN output
      /\ call'.op = "summary"
      /\ NoBundleItemTriggers)
       => output' = output]_vars

\* C9: clear returns data=true and leaves the cart empty whatever the cart
\* held; a clear directly after a clear does the same, and a summary directly
\* after a clear returns EmptyCartError.
C9_Clear ==
  [][/\ call'.op = "clear" => (output' = [data |-> TRUE] /\ items' = <<>>)
     /\ (call.op = "clear" /\ call'.op = "clear")
          => (items = <<>> /\ items' = <<>> /\ output' = [data |-> TRUE])
     /\ (call.op = "clear" /\ call'.op = "summary")
          => (output' = [error |-> EmptyCartError] /\ items' = <<>>)]_vars

C9_Witness ==
  /\ call.op = "clear"
  /\ \E i \in DOMAIN before : before[i] = freeItem2
  /\ items = <<>>
  /\ output = [data |-> TRUE]

\* C10: the cart is non-empty exactly when a scan has succeeded since
\* construction or the last clear; clear empties it; a failed scan, a summary
\* and a total leave an empty cart empty and a non-empty cart non-empty; and
\* after a scan, a summary or a total the cart the call found is a prefix of
\* the cart it leaves.
C10_StateMachine ==
  /\ items # <<>> <=> scanned # <<>>
  /\ call.op = "clear" => items = <<>>
  /\ ((call.op = "scan" /\ output.data = FALSE)
        \/ call.op \in {"summary", "total"})
       => (items = <<>> <=> before = <<>>)
  /\ call.op \in {"scan", "summary", "total"} => IsPrefix(before, items)

C10_Witness ==
  /\ call.op = "summary"
  /\ before # <<>>
  /\ Len(items) > Len(before)
  /\ IsPrefix(before, items)
  /\ scanned # <<>>

\* The report of a cart: the SKU line over the cart and the total line over
\* the items priced.
ReportOf(listed, priced) ==
  "SKUs Scanned: " \o listed[1].sku \o SkusFrom(listed, 2) \o "\n" \o
  "Total expected: $" \o numberToString(PriceLessDiscount(priced))

\* An apply of the last call threw.
ApplyThrew ==
  \E k \in DOMAIN applied : "throws" \in DOMAIN promotionServices[k]

\* C11: total never throws to its caller and returns no value; when its
\* summary succeeds it writes exactly the summary string to standard output
\* and logs nothing; when its summary fails or gives no data it logs the
\* error and writes no string to standard output.
C11_Total ==
  call.op = "total"
    => /\ raised = FALSE
       /\ output = undefined
       /\ (before # <<>> /\ ~ApplyThrew)
            => (stdout = <<String(ReportOf(items, items))>> /\ stderr = 0)
       /\ (before = <<>> \/ ApplyThrew)
            => (stderr >= 1 /\ \A i \in DOMAIN stdout : stdout[i].t # "string")

C11_Witness ==
  /\ call.op = "total"
  /\ before # <<>>
  /\ ApplyThrew
  /\ stdout = <<undefined>>
  /\ stderr = 2
  /\ raised = FALSE

\* C12: a scan that returns data=false, whether for an invalid SKU, an
\* unknown SKU, an error reported by the repository or a lookup that throws,
\* leaves the cart as it was; after scans of t01, t02, t01 and the unknown
\* t03, summary reports exactly "t01, t02, t01".
C12_FailedScanFrame ==
  [][/\ (call'.op = "scan" /\ output'.data = FALSE) => items' = items
     /\ (/\ call.op = "scan"
         /\ call.itemSKU = String("t03")
         /\ output.data = FALSE
         /\ scanned = <<validItemT01, validItemT02, validItemT01>>
         /\ items = scanned
         /\ call'.op = "summary"
         /\ promotionServices = <<BundlePromotionService(<<bundleRule1>>)>>)
          => output' =
               [data |-> "SKUs Scanned: t01, t02, t01\nTotal expected: $5.98"]
    ]_vars

C12_Witness ==
  /\ call.op = "scan"
  /\ call.itemSKU = String("t03")
  /\ call.lookup = Returned(NoOutput)
  /\ output = [data |-> FALSE, error |-> ItemNotFoundError]
  /\ before = <<validItemT01, validItemT02, validItemT01>>
  /\ items = before

\* C13: in every state the cart starts with all scanned items, in scan
\* order, and only promotion items follow them.
C13_ScannedFirst == IsPrefix(scanned, items)

\* C14: in a summary call the services are applied in registration order,
\* the first to the scanned items and every later one to the cart its
\* predecessor was applied to plus the items that predecessor returned.
C14_EagerOrder ==
  (call.op = "summary" /\ before # <<>>)
    => /\ Len(applied) = Len(promotionServices)
       /\ \A k \in DOMAIN applied :
            /\ IsPrefix(applied[k], items)
            /\ k = 1 => applied[k] = scanned
            /\ k > 1 => applied[k] =
                 applied[k - 1] \o apply(promotionServices[k - 1], applied[k - 1])

\* The last call was a scan whose lookup returned an Output with an error.
LookupReportedError ==
  /\ call.op = "scan"
  /\ selected # <<>>
  /\ ~call.lookup.threw
  /\ "error" \in DOMAIN call.lookup.value

\* C15: when selectOne returns an Output with its error set, scan returns
\* data=false with that error and appends nothing, also when the Output
\* carries data.
C15_ErrorPropagated ==
  LookupReportedError
    => /\ DOMAIN output = {"data", "error"}
       /\ output.data = FALSE
       /\ output.error = call.lookup.value.error
       /\ output.error # ItemNotFoundError
       /\ items = before

\* C16: no call throws to its caller: a lookup that throws makes scan return
\* data=false without an error, and an apply that throws makes summary
\* return an Output with neither data nor error.
C16_FaultsCaught ==
  /\ raised = FALSE
  /\ (call.op = "scan" /\ selected # <<>> /\ call.lookup.threw)
       => output = [data |-> FALSE]
  /\ (call.op = "summary" /\ ApplyThrew) => DOMAIN output = {}

C16_Witness ==
  /\ call.op = "summary"
  /\ ApplyThrew
  /\ DOMAIN output = {}
  /\ raised = FALSE
  /\ Len(items) > Len(before)

\* Every bundle item of the registered services is priced 0 and carries no
\* discount.
BundleItemsFree ==
  \A k \in DOMAIN promotionServices :
    \A r \in DOMAIN promotionServices[k].rules :
      \A b \in DOMAIN promotionServices[k].rules[r].bundleItems :
        LET item == promotionServices[k].rules[r].bundleItems[b]
        IN "price" \in DOMAIN item /\ item.price = 0
             /\ "discount" \notin DOMAIN item

\* C17: with every bundle item priced 0 and without discount, the total of a
\* successful summary is the sum of price minus discount over the items
\* scanned since the last clear, however many summaries and totals came
\* before it.
C17_TotalOfScanned ==
  (call.op = "summary" /\ "data" \in DOMAIN output /\ BundleItemsFree)
    => output.data = ReportOf(items, scanned)

C17_Witness ==
  /\ call.op = "summary"
  /\ "data" \in DOMAIN output
  /\ promotionServices = <<BundlePromotionService(<<bundleRule1>>)>>
  /\ Len(scanned) = 3
  /\ Len(items) = 5
  /\ items[3] = freeItem2
  /\ items[4] = promotionRuleItem1

\* C18: a summary call on a non-empty cart applies every registered service
\* once, in order, each to the cart as it stands at that moment, and pushes
\* what that one application returned; a rule whose bundle item carries the
\* rule's own trigger SKU emits one item per trigger item the call found, not
\* one more for each item it has just emitted.
C18_AppliedOnce ==
  (call.op = "summary" /\ before # <<>>)
    => /\ Len(applied) = Len(promotionServices)
       /\ \A k \in DOMAIN applied :
            LET found == IF k = 1 THEN before
                         ELSE applied[k - 1]
                                \o apply(promotionServices[k - 1], applied[k - 1])
                left == IF k = Len(applied) THEN items ELSE applied[k + 1]
            IN /\ applied[k] = found
               /\ left = applied[k] \o apply(promotionServices[k], applied[k])
       /\ promotionServices
            = <<BundlePromotionService(<<bundleRule3, bundleRule1>>)>>
            => Occurrences(Appended, unpricedT01) = SkuOccurrences(before, "t01")

C18_Witness ==
  /\ call.op = "summary"
  /\ promotionServices = <<BundlePromotionService(<<bundleRule3, bundleRule1>>)>>
  /\ before = <<validItemT01, validItemT01>>
  /\ items = <<validItemT01, validItemT01, unpricedT01, unpricedT01>>
  /\ applied = <<before>>

\* C19: scan returns data=true exactly when it appended an item, and then
\* without an error; scan and clear always return a boolean data; summary
\* never returns data together with an error, and returns data only when the
\* cart it found was non-empty.
C19_Envelopes ==
  /\ call.op = "scan"
       => /\ "data" \in DOMAIN output
          /\ output.data \in BOOLEAN
          /\ output.data = TRUE <=> Len(items) = Len(before) + 1
          /\ output.data = TRUE => "error" \notin DOMAIN output
  /\ call.op = "clear" => ("data" \in DOMAIN output /\ output.data \in BOOLEAN)
  /\ call.op = "summary"
       => /\ ~("data" \in DOMAIN output /\ "error" \in DOMAIN output)
          /\ "data" \in DOMAIN output => before # <<>>

C19_Witness ==
  /\ call.op = "scan"
  /\ LookupReportedError
  /\ output = [data |-> TRUE]
  /\ items = Append(before, validItemT01)

====
